---- MODULE Spec2Model ----
(***************************************************************************)
(* A model of edl2denlive.py: parse_edl_line (one line of an mpv EDL to a  *)
(* cut record) and create_kdenlive_project (the cut list, the path-to-id   *)
(* registry, the MLT document and the output file).                        *)
(*                                                                         *)
(* Text is a sequence of one-character strings.  A number is a record      *)
(* [k, n]: k = "fin" with n the value in sixteenths of a second (every     *)
(* literal of the model is a multiple of 1/16, so the float arithmetic of  *)
(* the program is exact on it), k = "inf" with n the sign, or k = "nan".   *)
(***************************************************************************)
EXTENDS Integers, Sequences, FiniteSets, TLC

\* ------------------------------------------------------------ bounds
\* The most fields joined into one line handed to parse_edl_line.
MaxWords == 4
\* The most lines of an input file.
MaxLines == 3

\* ------------------------------------------------------- text helpers
\* str.strip() strips whitespace; these are the whitespace characters of
\* the model's alphabet.
IsSpace(c) == c \in {" ", "\n", "\t"}

IsDigit(c) == c \in {"0", "1", "2", "3", "4", "5", "6", "7", "8", "9"}

DigitVal(c) ==
  CASE c = "0" -> 0 [] c = "1" -> 1 [] c = "2" -> 2 [] c = "3" -> 3
    [] c = "4" -> 4 [] c = "5" -> 5 [] c = "6" -> 6 [] c = "7" -> 7
    [] c = "8" -> 8 [] c = "9" -> 9

DigitChar(d) ==
  CASE d = 0 -> "0" [] d = 1 -> "1" [] d = 2 -> "2" [] d = 3 -> "3"
    [] d = 4 -> "4" [] d = 5 -> "5" [] d = 6 -> "6" [] d = 7 -> "7"
    [] d = 8 -> "8" [] d = 9 -> "9"

RECURSIVE LStrip(_)
LStrip(s) ==
  IF s # <<>> /\ IsSpace(Head(s)) THEN LStrip(Tail(s)) ELSE s

RECURSIVE RStrip(_)
RStrip(s) ==
  IF s # <<>> /\ IsSpace(s[Len(s)]) THEN RStrip(SubSeq(s, 1, Len(s) - 1)) ELSE s

\* str.strip()
Strip(s) == RStrip(LStrip(s))

Max(S) == CHOOSE x \in S : \A y \in S : y <= x

\* str.split(',', 2) in place of rsplit: the two splits taken from the left.
SplitComma2Left(s) ==
  LET P == {i \in 1..Len(s) : s[i] = ","} IN
  IF P = {} THEN <<s>>
  ELSE LET j == CHOOSE x \in P : \A y \in P : x <= y
           Q == P \ {j}
       IN IF Q = {} THEN <<SubSeq(s, 1, j - 1), SubSeq(s, j + 1, Len(s))>>
          ELSE LET k == CHOOSE x \in Q : \A y \in Q : x <= y
               IN <<SubSeq(s, 1, j - 1), SubSeq(s, j + 1, k - 1),
                    SubSeq(s, k + 1, Len(s))>>

\* str.rsplit(',', 2): at most two splits, taken from the right.
RSplitComma2(s) ==
  LET P == {i \in 1..Len(s) : s[i] = ","} IN
  IF P = {} THEN <<s>>
  ELSE LET k == Max(P)
           Q == P \ {k}
       IN IF Q = {} THEN <<SubSeq(s, 1, k - 1), SubSeq(s, k + 1, Len(s))>>
          ELSE LET j == Max(Q)
               IN <<SubSeq(s, 1, j - 1), SubSeq(s, j + 1, k - 1),
                    SubSeq(s, k + 1, Len(s))>>

\* The first whitespace-delimited token of s, s starting with a non-space.
RECURSIVE TokenLen(_)
TokenLen(s) ==
  IF s = <<>> \/ IsSpace(Head(s)) THEN 0 ELSE 1 + TokenLen(Tail(s))

\* str.split(): split on runs of whitespace, no empty tokens.
RECURSIVE SplitWs(_)
SplitWs(s) ==
  LET t == LStrip(s) IN
  IF t = <<>> THEN <<>>
  ELSE LET n == TokenLen(t)
       IN <<SubSeq(t, 1, n)>> \o SplitWs(SubSeq(t, n + 1, Len(t)))

\* " ".join(parts)
RECURSIVE JoinSp(_)
JoinSp(parts) ==
  IF parts = <<>> THEN <<>>
  ELSE IF Len(parts) = 1 THEN parts[1]
  ELSE parts[1] \o <<" ">> \o JoinSp(Tail(parts))

\* ------------------------------------------------------------ numbers
Fin(n) == [k |-> "fin", n |-> n]
NaN == [k |-> "nan", n |-> 0]
Inf(sgn) == [k |-> "inf", n |-> sgn]

RECURSIVE Pow10(_)
Pow10(e) == IF e = 0 THEN 1 ELSE 10 * Pow10(e - 1)

\* The integer a run of digits denotes.
RECURSIVE DigitsVal(_)
DigitsVal(ds) ==
  IF ds = <<>> THEN 0
  ELSE 10 * DigitsVal(SubSeq(ds, 1, Len(ds) - 1)) + DigitVal(ds[Len(ds)])

\* float(text): [ok, val].  Leading and trailing whitespace is ignored; an
\* optional sign; then "nan", "inf", "infinity", or decimal digits with at
\* most one point and at least one digit.  Anything else raises ValueError
\* (ok = FALSE).
PyFloat(text) ==
  LET t    == Strip(text)
      neg  == t # <<>> /\ t[1] = "-"
      sgnd == t # <<>> /\ t[1] \in {"-", "+"}
      body == IF sgnd THEN Tail(t) ELSE t
      dots == {i \in 1..Len(body) : body[i] = "."}
      bad  == [ok |-> FALSE, val |-> NaN]
  IN
  IF body = <<"n", "a", "n">> THEN [ok |-> TRUE, val |-> NaN]
  ELSE IF body = <<"i", "n", "f">>
          \/ body = <<"i", "n", "f", "i", "n", "i", "t", "y">>
    THEN [ok |-> TRUE, val |-> Inf(IF neg THEN -1 ELSE 1)]
  ELSE IF Cardinality(dots) > 1 THEN bad
  ELSE LET ds    == SelectSeq(body, LAMBDA c : c # ".")
           scale == IF dots = {} THEN 0 ELSE Len(body) - Max(dots)
       IN IF ds = <<>> \/ \E i \in 1..Len(ds) : ~IsDigit(ds[i]) THEN bad
          ELSE [ok  |-> TRUE,
                val |-> Fin((IF neg THEN -1 ELSE 1)
                            * ((DigitsVal(ds) * 16) \div Pow10(scale)))]

\* ----------------------------------------------------- parse_edl_line
\* What parse_edl_line returns and prints: data is <<>> for None and
\* <<record>> for a record; out is the lines printed.
NoneSilent == [data |-> <<>>, out |-> <<>>]

WarnInvalid(line) ==
  [data |-> <<>>, out |-> <<<<"[Warn] Skipping invalid line format: ", line>>>>]

\* The try block once the three fields are known: the two float()
\* conversions, either of which may raise ValueError.
Convert(line, path, startTxt, lengthTxt) ==
  LET s == PyFloat(startTxt)
      l == PyFloat(lengthTxt)
  IN IF ~s.ok \/ ~l.ok THEN WarnInvalid(line)
     ELSE [data |-> <<[path |-> path, start |-> s.val, length |-> l.val]>>,
           out  |-> <<>>]

\* The whitespace fallback, taken when the comma split has not 3 parts.
ParseFallback(line) ==
  LET parts == SplitWs(line)
      n     == Len(parts)
  IN IF n < 3 THEN NoneSilent
     ELSE Convert(line, JoinSp(SubSeq(parts, 1, n - 2)), parts[n - 1], parts[n])

\* parse_edl_line with the whitespace fallback retried after a failed
\* conversion of the comma format.
parse_edl_line_retry(raw) ==
  LET line  == Strip(raw)
      parts == RSplitComma2(line)
      first == Convert(line, Strip(parts[1]), parts[2], parts[3])
  IN IF line = <<>> \/ line[1] = "#" THEN NoneSilent
     ELSE IF Len(parts) # 3 THEN ParseFallback(line)
     ELSE IF first.data = <<>> THEN ParseFallback(line)
     ELSE first

parse_edl_line(raw) ==
  LET line  == Strip(raw)
      parts == RSplitComma2(line)
  IN IF line = <<>> \/ line[1] = "#" THEN NoneSilent
     ELSE IF Len(parts) # 3 THEN ParseFallback(line)
     ELSE Convert(line, Strip(parts[1]), parts[2], parts[3])

\* ------------------------------------------------- inputs of the parser
\* The fields and separators lines are joined from.
Words == { <<"a">>, <<"1">>, <<"-", ".", "5">>, <<"n", "a", "n">>, <<"#">>, <<>> }
Seps  == { <<",">>, <<" ">>, <<" ", ",", " ">> }

\* The line of n fields ws joined by the n - 1 separators ss.
RECURSIVE JoinFields(_, _, _)
JoinFields(ws, ss, n) ==
  IF n = 1 THEN ws[1]
  ELSE JoinFields(ws, ss, n - 1) \o ss[n - 1] \o ws[n]

\* ------------------------------------------------------- formatting
FAdd(x, y) ==
  IF x.k = "nan" \/ y.k = "nan" THEN NaN
  ELSE IF x.k = "inf" /\ y.k = "inf" THEN (IF x.n = y.n THEN x ELSE NaN)
  ELSE IF x.k = "inf" THEN x
  ELSE IF y.k = "inf" THEN y
  ELSE Fin(x.n + y.n)

\* The decimal digits of a natural number: str(k).
RECURSIVE IntToStr(_)
IntToStr(k) ==
  IF k < 10 THEN <<DigitChar(k)>>
  ELSE IntToStr(k \div 10) \o <<DigitChar(k % 10)>>

\* The thousandths nearest to a magnitude of a sixteenths: a * 1000 / 16,
\* rounded half to even (the value is exact in binary, so a tie is a tie).
RoundMillis(a) ==
  LET q == (a * 125) \div 2
  IN IF (a * 125) % 2 = 0 THEN q
     ELSE IF q % 2 = 0 THEN q ELSE q + 1

\* f"{x:.3f}"
Fmt3(x) ==
  IF x.k = "nan" THEN <<"n", "a", "n">>
  ELSE IF x.k = "inf"
    THEN (IF x.n < 0 THEN <<"-">> ELSE <<>>) \o <<"i", "n", "f">>
  ELSE LET a == IF x.n < 0 THEN -x.n ELSE x.n
           m == RoundMillis(a)
           f == m % 1000
       IN (IF x.n < 0 THEN <<"-">> ELSE <<>>)
          \o IntToStr(m \div 1000) \o <<".">>
          \o <<DigitChar(f \div 100), DigitChar((f \div 10) % 10),
               DigitChar(f % 10)>>

\* f"producer{producer_counter}"
ProducerId(k) == <<"p", "r", "o", "d", "u", "c", "e", "r">> \o IntToStr(k)

\* ------------------------------------------------- the path registry
\* unique_paths is a dict, which keeps insertion order: a sequence of
\* [path, pid] with no path twice.
HasPath(up, path) == \E i \in 1..Len(up) : up[i].path = path

\* unique_paths[path]
Lookup(up, path) == up[CHOOSE i \in 1..Len(up) : up[i].path = path].pid

\* Register without the membership test: every cut gets a new id.
RegisterEveryCut(up, counter, path) ==
  [up      |-> Append(up, [path |-> path, pid |-> ProducerId(counter)]),
   counter |-> counter + 1]

\* Register without the increment of producer_counter.
RegisterNoIncrement(up, counter, path) ==
  IF HasPath(up, path) THEN [up |-> up, counter |-> counter]
  ELSE [up      |-> Append(up, [path |-> path, pid |-> ProducerId(counter)]),
        counter |-> counter]

\* Lines 64-66: a path not yet in the registry gets the next id.
Register(up, counter, path) ==
  IF HasPath(up, path) THEN [up |-> up, counter |-> counter]
  ELSE [up      |-> Append(up, [path |-> path, pid |-> ProducerId(counter)]),
        counter |-> counter + 1]

\* Lines 78-84: the producer element of one registry item.
ProducerElement(item) == [id |-> item.pid, resource |-> item.path]

\* Lines 95-105: the playlist entry of one cut.
EntryElement(up, cut) ==
  [producer |-> Lookup(up, cut.path),
   in       |-> Fmt3(cut.start),
   out      |-> Fmt3(FAdd(cut.start, cut.length))]

\* --------------------------------------------------- the input files
NL == <<"\n">>

EdlLines ==
  { <<"a", ",", "1", ",", "2">> \o NL,
    <<"a", ",", "2", ",", "1">> \o NL,
    <<"b", ",", ".", "0", "6", "2", "5", ",", ".", "0", "6", "2", "5">> \o NL,
    <<"b", ",", " ", "1", ".", "5", ",", " ", "2", ".", "2", "5">> \o NL,
    <<"a", ",", "b", ",", "1", ",", ".", "5">> \o NL,
    <<"a", " ", "b", " ", "1", " ", "1">> \o NL,
    NL,
    <<"#", "a", ",", "1", ",", "2">> \o NL,
    <<"a", ",", "x", ",", "1">> \o NL,
    <<"a">> \o NL,
    <<"a", ",", "-", "1", ",", "2">> \o NL,
    <<"a", ",", "n", "a", "n", ",", "1">> \o NL }

\* -------------------------------------------------------------- state
VARIABLES
  arg_line, called, ret,    \* a call of parse_edl_line on its own
  edl_exists, edl,          \* the input: whether the file exists, its lines
  pc,                       \* where create_kdenlive_project stands
  nread,                    \* lines of the file consumed by the for loop
  cuts, unique_paths, producer_counter,
  it,                       \* items done by the running build loop
  root,                     \* the mlt element: producers, entries, tracks
  stdout,                   \* what was printed
  out_opened, out_file      \* the output: opened for writing, its content

pvars == <<arg_line, called, ret>>
bvars == <<edl_exists, edl, pc, nread, cuts, unique_paths, producer_counter,
           it, root, stdout, out_opened, out_file>>
vars == <<pvars, bvars>>

Msg(text, arg) == [msg |-> text, arg |-> arg]

EmptyRoot == [producers |-> <<>>, entries |-> <<>>, tracks |-> <<>>]

BuilderStart ==
  /\ pc = "start"
  /\ nread = 0
  /\ cuts = <<>>
  /\ unique_paths = <<>>
  /\ producer_counter = 0
  /\ it = 0
  /\ root = EmptyRoot
  /\ stdout = <<>>
  /\ out_opened = FALSE
  /\ out_file = <<>>

Init ==
  /\ arg_line = <<>> /\ called = FALSE /\ ret = NoneSilent
  /\ edl_exists \in BOOLEAN
  /\ \E n \in 0..MaxLines :
       edl \in (IF edl_exists THEN [1..n -> EdlLines] ELSE {<<>>})
  /\ BuilderStart

\* Lines 57-59, 67-69: open(edl_path) raises FileNotFoundError.
OpenMissing ==
  /\ pc = "start" /\ ~edl_exists
  /\ stdout' = stdout \o <<Msg("Reading EDL: ", <<>>),
                           Msg("Error: EDL file not found.", <<>>)>>
  /\ pc' = "done"
  /\ UNCHANGED <<pvars, edl_exists, edl, nread, cuts, unique_paths,
                 producer_counter, it, root, out_opened, out_file>>

\* Lines 57-59: the file opens.
OpenOk ==
  /\ pc = "start" /\ edl_exists
  /\ stdout' = Append(stdout, Msg("Reading EDL: ", <<>>))
  /\ pc' = "read"
  /\ UNCHANGED <<pvars, edl_exists, edl, nread, cuts, unique_paths,
                 producer_counter, it, root, out_opened, out_file>>

\* ReadLine with producer_counter advanced for every line read, accepted
\* or not.
ReadLineCountsEveryLine ==
  /\ pc = "read" /\ nread < Len(edl)
  /\ LET r == parse_edl_line(edl[nread + 1]) IN
     /\ stdout' = stdout \o [i \in 1..Len(r.out) |-> Msg(r.out[i][1], r.out[i][2])]
     /\ IF r.data # <<>>
        THEN LET data == r.data[1]
                 reg  == Register(unique_paths, producer_counter, data.path)
             IN /\ cuts' = Append(cuts, data)
                /\ unique_paths' = reg.up
                /\ producer_counter' = reg.counter
        ELSE /\ producer_counter' = producer_counter + 1
             /\ UNCHANGED <<cuts, unique_paths>>
  /\ nread' = nread + 1
  /\ UNCHANGED <<pvars, edl_exists, edl, pc, it, root, out_opened, out_file>>

\* Lines 60-66: one iteration of the for loop over the file's lines.
ReadLine ==
  /\ pc = "read" /\ nread < Len(edl)
  /\ LET r == parse_edl_line(edl[nread + 1]) IN
     /\ stdout' = stdout \o [i \in 1..Len(r.out) |-> Msg(r.out[i][1], r.out[i][2])]
     /\ IF r.data # <<>>
        THEN LET data == r.data[1]
                 reg  == Register(unique_paths, producer_counter, data.path)
             IN /\ cuts' = Append(cuts, data)
                /\ unique_paths' = reg.up
                /\ producer_counter' = reg.counter
        ELSE UNCHANGED <<cuts, unique_paths, producer_counter>>
  /\ nread' = nread + 1
  /\ UNCHANGED <<pvars, edl_exists, edl, pc, it, root, out_opened, out_file>>

\* NoCuts without its return: the error is printed and the build goes on.
NoCutsNoReturn ==
  /\ pc = "read" /\ nread = Len(edl) /\ cuts = <<>>
  /\ stdout' = Append(stdout, Msg("Error: No valid cuts found in EDL.", <<>>))
  /\ pc' = "producers" /\ it' = 0
  /\ UNCHANGED <<pvars, edl_exists, edl, nread, cuts, unique_paths,
                 producer_counter, root, out_opened, out_file>>

\* Lines 71-73: the file is read and no cut was accepted.
NoCuts ==
  /\ pc = "read" /\ nread = Len(edl) /\ cuts = <<>>
  /\ stdout' = Append(stdout, Msg("Error: No valid cuts found in EDL.", <<>>))
  /\ pc' = "done"
  /\ UNCHANGED <<pvars, edl_exists, edl, nread, cuts, unique_paths,
                 producer_counter, it, root, out_opened, out_file>>

\* Lines 71, 76: the file is read and there are cuts.
StartProducers ==
  /\ pc = "read" /\ nread = Len(edl) /\ cuts # <<>>
  /\ stdout' = Append(stdout, Msg("Found unique source files: ",
                                  IntToStr(Len(unique_paths))))
  /\ pc' = "producers" /\ it' = 0
  /\ UNCHANGED <<pvars, edl_exists, edl, nread, cuts, unique_paths,
                 producer_counter, root, out_opened, out_file>>

\* Lines 77-84: one iteration of the loop over unique_paths.items().
AddProducer ==
  /\ pc = "producers" /\ it < Len(unique_paths)
  /\ root' = [root EXCEPT !.producers =
                Append(@, ProducerElement(unique_paths[it + 1]))]
  /\ it' = it + 1
  /\ UNCHANGED <<pvars, edl_exists, edl, pc, nread, cuts, unique_paths,
                 producer_counter, stdout, out_opened, out_file>>

\* Lines 90-93: the playlist element is created.
StartPlaylist ==
  /\ pc = "producers" /\ it = Len(unique_paths)
  /\ stdout' = Append(stdout, Msg("Processing cuts: ", IntToStr(Len(cuts))))
  /\ pc' = "entries" /\ it' = 0
  /\ UNCHANGED <<pvars, edl_exists, edl, nread, cuts, unique_paths,
                 producer_counter, root, out_opened, out_file>>

\* AddEntry iterating the cuts from the last to the first.
AddEntryFromEnd ==
  /\ pc = "entries" /\ it < Len(cuts)
  /\ root' = [root EXCEPT !.entries =
                Append(@, EntryElement(unique_paths, cuts[Len(cuts) - it]))]
  /\ it' = it + 1
  /\ UNCHANGED <<pvars, edl_exists, edl, pc, nread, cuts, unique_paths,
                 producer_counter, stdout, out_opened, out_file>>

\* Lines 94-105: one iteration of the loop over cuts.
AddEntry ==
  /\ pc = "entries" /\ it < Len(cuts)
  /\ root' = [root EXCEPT !.entries =
                Append(@, EntryElement(unique_paths, cuts[it + 1]))]
  /\ it' = it + 1
  /\ UNCHANGED <<pvars, edl_exists, edl, pc, nread, cuts, unique_paths,
                 producer_counter, stdout, out_opened, out_file>>

\* Lines 109-114: the tractor and its one track.
AddTractor ==
  /\ pc = "entries" /\ it = Len(cuts)
  /\ root' = [root EXCEPT !.tracks =
                Append(@, [tractor |-> "maintractor", producer |-> "playlist0"])]
  /\ pc' = "write"
  /\ UNCHANGED <<pvars, edl_exists, edl, nread, cuts, unique_paths,
                 producer_counter, it, stdout, out_opened, out_file>>

\* Lines 121-126: the document is serialized and written.
WriteOk ==
  /\ pc = "write"
  /\ out_opened' = TRUE
  /\ out_file' = <<root>>
  /\ stdout' = Append(stdout, Msg("Success! Project saved to: ", <<>>))
  /\ pc' = "done"
  /\ UNCHANGED <<pvars, edl_exists, edl, nread, cuts, unique_paths,
                 producer_counter, it, root>>

\* Lines 123-128: open() or write() raises IOError; the file may have
\* been opened (and so created or truncated) before the failure.
WriteFail ==
  /\ pc = "write"
  /\ out_opened' \in BOOLEAN
  /\ out_file' = <<>>
  /\ stdout' = Append(stdout, Msg("Error writing output file: ", <<>>))
  /\ pc' = "done"
  /\ UNCHANGED <<pvars, edl_exists, edl, nread, cuts, unique_paths,
                 producer_counter, it, root>>

Next ==
  \/ OpenMissing \/ OpenOk \/ ReadLine \/ NoCuts \/ StartProducers
  \/ AddProducer \/ StartPlaylist \/ AddEntry \/ AddTractor
  \/ WriteOk \/ WriteFail

Spec == Init /\ [][Next]_vars

\* ----------------------------------- parse_edl_line called on its own
ParseInit ==
  /\ \E n \in 1..MaxWords :
       \E ws \in [1..n -> Words], ss \in [1..(n - 1) -> Seps] :
         arg_line = JoinFields(ws, ss, n)
  /\ called = FALSE
  /\ ret = NoneSilent
  /\ edl_exists = FALSE /\ edl = <<>>
  /\ BuilderStart

CallParse ==
  /\ ~called
  /\ called' = TRUE
  /\ ret' = parse_edl_line(arg_line)
  /\ UNCHANGED <<arg_line, bvars>>

SpecParse == ParseInit /\ [][CallParse]_vars

\* ------------------------------- create_kdenlive_project as a function
\* Lines 53-66: the cut list, the registry and the counter after the for
\* loop has read the given lines.
RECURSIVE ScanLines(_)
ScanLines(lines) ==
  IF lines = <<>>
  THEN [cuts |-> <<>>, up |-> <<>>, counter |-> 0]
  ELSE LET n    == Len(lines)
           prev == ScanLines(SubSeq(lines, 1, n - 1))
           r    == parse_edl_line(lines[n])
       IN IF r.data = <<>> THEN prev
          ELSE LET reg == Register(prev.up, prev.counter, r.data[1].path)
               IN [cuts    |-> Append(prev.cuts, r.data[1]),
                   up      |-> reg.up,
                   counter |-> reg.counter]

\* Lines 75-114: the mlt element built from the lines of a file with at
\* least one accepted cut.
DocumentOf(lines) ==
  LET st == ScanLines(lines) IN
  [producers |-> [i \in 1..Len(st.up) |-> ProducerElement(st.up[i])],
   entries   |-> [i \in 1..Len(st.cuts) |-> EntryElement(st.up, st.cuts[i])],
   tracks    |-> <<[tractor |-> "maintractor", producer |-> "playlist0"]>>]

\* ------------------------------------------------- terms of the claims
\* The document is complete: the tractor has been added.
DocBuilt == pc \in {"write", "done"} /\ root.tracks # <<>>

\* The records of the lines parse_edl_line accepts, in the order of the lines.
RECURSIVE AcceptedCuts(_)
AcceptedCuts(lines) ==
  IF lines = <<>> THEN <<>>
  ELSE AcceptedCuts(SubSeq(lines, 1, Len(lines) - 1))
       \o parse_edl_line(lines[Len(lines)]).data

\* The lines left when those parse_edl_line yields no record for are removed.
WithoutRejected(lines) ==
  SelectSeq(lines, LAMBDA l : parse_edl_line(l).data # <<>>)

\* The distinct paths of a cut sequence in the order of first appearance.
RECURSIVE FirstSeen(_)
FirstSeen(cs) ==
  IF cs = <<>> THEN <<>>
  ELSE LET before == FirstSeen(SubSeq(cs, 1, Len(cs) - 1))
           path   == cs[Len(cs)].path
       IN IF \E i \in 1..Len(before) : before[i] = path THEN before
          ELSE Append(before, path)

Printed(text) == \E i \in 1..Len(stdout) : stdout[i].msg = text

CommaPos(s) == {i \in 1..Len(s) : s[i] = ","}

\* The second-to-last and the last comma of a text with two commas or more.
PrevComma(s) ==
  CHOOSE j \in CommaPos(s) : Cardinality({i \in CommaPos(s) : i > j}) = 1

LastComma(s) == CHOOSE k \in CommaPos(s) : \A i \in CommaPos(s) : i <= k

\* The number of whitespace-separated tokens of a text.
TokenCount(s) ==
  Cardinality({i \in 1..Len(s) :
                 ~IsSpace(s[i]) /\ (i = 1 \/ IsSpace(s[i - 1]))})

\* The line is neither blank nor a comment.
IsContent(raw) == Strip(raw) # <<>> /\ Strip(raw)[1] # "#"

\* The line is in the comma format: it splits into three comma parts.
CommaFormat(raw) == Cardinality(CommaPos(Strip(raw))) >= 2

\* The start and length fields of a line in the comma format.
CommaStart(raw) ==
  LET t == Strip(raw) IN SubSeq(t, PrevComma(t) + 1, LastComma(t) - 1)

CommaLength(raw) ==
  LET t == Strip(raw) IN SubSeq(t, LastComma(t) + 1, Len(t))

\* The text of a line before its second-to-last comma.
CommaPath(raw) ==
  LET t == Strip(raw) IN SubSeq(t, 1, PrevComma(t) - 1)

\* The start and length fields of a line in the whitespace format (no
\* three comma parts, three tokens or more).
WsFormat(raw) == ~CommaFormat(raw) /\ TokenCount(Strip(raw)) >= 3

WsStart(raw) ==
  LET toks == SplitWs(Strip(raw)) IN toks[Len(toks) - 1]

WsLength(raw) ==
  LET toks == SplitWs(Strip(raw)) IN toks[Len(toks)]

\* A start or length field of the line fails float().
ConversionFails(raw) ==
  /\ IsContent(raw)
  /\ \/ /\ CommaFormat(raw)
        /\ ~PyFloat(CommaStart(raw)).ok \/ ~PyFloat(CommaLength(raw)).ok
     \/ /\ WsFormat(raw)
        /\ ~PyFloat(WsStart(raw)).ok \/ ~PyFloat(WsLength(raw)).ok

\* A line "path, start, length" whose last two comma fields are numbers.
WellFormed(raw) ==
  /\ CommaFormat(raw)
  /\ PyFloat(CommaStart(raw)).ok /\ PyFloat(CommaLength(raw)).ok

\* A string of digits, a point and exactly three digits, with or without
\* a minus sign before it.
IsFixed3(t) ==
  LET u == IF t # <<>> /\ t[1] = "-" THEN Tail(t) ELSE t IN
  /\ Len(u) >= 5
  /\ u[Len(u) - 3] = "."
  /\ \A i \in 1..Len(u) : i # Len(u) - 3 => IsDigit(u[i])

\* ----------------------------------------------------------- claims
\* C1: for an input with N >= 1 accepted cuts over M distinct paths, the
\* document built holds exactly M producer elements and exactly N playlist
\* entries, and the producer attribute of every entry is the id of one of
\* the producer elements.
C1_ProducersAndEntries ==
  DocBuilt =>
    LET acc == AcceptedCuts(edl)
        M   == Cardinality({acc[i].path : i \in 1..Len(acc)})
    IN /\ Len(acc) >= 1
       /\ Len(root.producers) = M
       /\ Len(root.entries) = Len(acc)
       /\ \A k \in 1..Len(root.entries) :
            \E j \in 1..Len(root.producers) :
              root.producers[j].id = root.entries[k].producer

\* Three cuts over two sources have been built into a document.
C1_Witness ==
  /\ DocBuilt
  /\ Len(root.entries) = 3
  /\ Len(root.producers) = 2

\* C2: the playlist entries are in the order of the accepted lines, one
\* per accepted line: the k-th entry carries the id of the producer of the
\* k-th accepted cut's path and that cut's in and out values.
C2_EntriesInInputOrder ==
  DocBuilt =>
    LET acc == AcceptedCuts(edl) IN
    /\ Len(root.entries) = Len(acc)
    /\ \A k \in 1..Len(acc) :
         /\ \E j \in 1..Len(root.producers) :
              /\ root.producers[j].resource = acc[k].path
              /\ root.producers[j].id = root.entries[k].producer
         /\ root.entries[k].in = Fmt3(acc[k].start)
         /\ root.entries[k].out = Fmt3(FAdd(acc[k].start, acc[k].length))

\* The same source is cut twice, the later cut starting earlier in the
\* source than the first, with a cut of another source between them.
C2_Witness ==
  /\ DocBuilt
  /\ Len(root.entries) = 3
  /\ root.entries[1].producer = root.entries[3].producer
  /\ root.entries[1].producer # root.entries[2].producer
  /\ cuts[1].start.k = "fin" /\ cuts[3].start.k = "fin"
  /\ cuts[1].start.n > cuts[3].start.n

\* The registry at any moment: its k-th item (k from 0) is the k-th
\* distinct path of the cuts accepted so far and holds the id producer<k>;
\* no path and no id occurs twice; the producer elements are the registry's
\* items in its order.
C3_State ==
  LET seen == FirstSeen(AcceptedCuts(SubSeq(edl, 1, nread))) IN
  /\ Len(unique_paths) = Len(seen)
  /\ \A i \in 1..Len(unique_paths) :
       /\ unique_paths[i].path = seen[i]
       /\ unique_paths[i].pid =
            <<"p", "r", "o", "d", "u", "c", "e", "r", DigitChar(i - 1)>>
  /\ \A i, j \in 1..Len(unique_paths) :
       i # j => /\ unique_paths[i].path # unique_paths[j].path
                /\ unique_paths[i].pid # unique_paths[j].pid
  /\ DocBuilt =>
       /\ Len(root.producers) = Len(unique_paths)
       /\ \A i \in 1..Len(unique_paths) :
            /\ root.producers[i].id = unique_paths[i].pid
            /\ root.producers[i].resource = unique_paths[i].path

\* An id once assigned stays with its path.
C3_Step ==
  \A i \in 1..Len(unique_paths) :
    /\ i <= Len(unique_paths')
    /\ unique_paths'[i] = unique_paths[i]

\* C3: producer ids are assigned in the order of first appearance, the k-th
\* distinct path getting producer<k>; a path holds one id, which never
\* changes; no two paths share an id; the producer elements are emitted in
\* the order of assignment.
C3_IdsByFirstAppearance == [](C3_State) /\ [][C3_Step]_vars

\* A written document of three cuts, the first and the third of one
\* source and the second of another.
C3_Witness ==
  /\ pc = "done" /\ out_file # <<>>
  /\ Len(cuts) = 3 /\ Len(unique_paths) = 2
  /\ cuts[1].path = cuts[3].path
  /\ cuts[1].path # cuts[2].path

\* C4: with the input file missing, or with no line accepted, an error is
\* reported and the output file is never opened or written; the output is
\* written only on a run with an accepted cut.
C4_NoOutputWithoutCuts ==
  LET nocuts == ~edl_exists \/ AcceptedCuts(edl) = <<>> IN
  /\ nocuts => /\ ~out_opened /\ out_file = <<>>
               /\ pc \in {"start", "read", "done"}
  /\ (pc = "done" /\ ~edl_exists) => Printed("Error: EDL file not found.")
  /\ (pc = "done" /\ edl_exists /\ AcceptedCuts(edl) = <<>>)
       => Printed("Error: No valid cuts found in EDL.")
  /\ (out_opened \/ out_file # <<>>) => Len(AcceptedCuts(edl)) >= 1

\* A run over a file of skipped and invalid lines only has ended.
C4_Witness ==
  /\ pc = "done" /\ edl_exists
  /\ Len(edl) >= 2
  /\ cuts = <<>>
  /\ Printed("[Warn] Skipping invalid line format: ")
  /\ Printed("Error: No valid cuts found in EDL.")

\* C5: a line that is neither blank nor a comment, does not split into
\* three comma parts and has fewer than three whitespace-separated tokens
\* yields no record and a warning is printed.
C5_ShortLineWarned ==
  (called /\ IsContent(arg_line) /\ ~CommaFormat(arg_line)
          /\ TokenCount(Strip(arg_line)) < 3)
    => (ret.data = <<>> /\ Len(ret.out) = 1)

\* C6: in either format, a start or length field that fails the numeric
\* conversion makes parse_edl_line yield no record and print exactly one
\* warning, which names the line; a line of three comma parts is then not
\* given to the whitespace fallback.
C6_ConversionFailureWarnsOnce ==
  (called /\ ConversionFails(arg_line))
    => /\ ret.data = <<>>
       /\ ret.out = <<<<"[Warn] Skipping invalid line format: ", Strip(arg_line)>>>>

\* A line of three comma parts with a field that is no number, which the
\* whitespace fallback would have accepted, has been parsed.
C6_Witness ==
  /\ called
  /\ IsContent(arg_line) /\ CommaFormat(arg_line)
  /\ ConversionFails(arg_line)
  /\ TokenCount(Strip(arg_line)) >= 3
  /\ PyFloat(SplitWs(Strip(arg_line))[TokenCount(Strip(arg_line)) - 1]).ok
  /\ PyFloat(SplitWs(Strip(arg_line))[TokenCount(Strip(arg_line))]).ok

\* The record C7 describes: the path is the trimmed text before the
\* second-to-last comma, start and length are the last two comma fields.
C7_Record(raw) ==
  [path   |-> Strip(CommaPath(raw)),
   start  |-> PyFloat(CommaStart(raw)).val,
   length |-> PyFloat(CommaLength(raw)).val]

\* C7 as stated: every line "path, start, length" with numeric start and
\* length yields the record of the rightmost-two-groups rule.
C7_Original ==
  (called /\ WellFormed(arg_line))
    => ret = [data |-> <<C7_Record(arg_line)>>, out |-> <<>>]

\* C7 amended: every such line whose trimmed text does not begin with '#'
\* yields that record.
C7_Amended ==
  (called /\ WellFormed(arg_line) /\ IsContent(arg_line))
    => ret = [data |-> <<C7_Record(arg_line)>>, out |-> <<>>]

\* A line whose path holds a comma and ends in a space has been parsed
\* into a record.
C7_Witness ==
  /\ called /\ WellFormed(arg_line) /\ IsContent(arg_line)
  /\ ret.data # <<>>
  /\ CommaPos(ret.data[1].path) # {}
  /\ CommaPath(arg_line) # Strip(CommaPath(arg_line))

\* C8: of every playlist entry, in is the start and out the start plus the
\* length of its cut, both written as fixed-point strings of exactly three
\* decimals.
C8_ThreeDecimals ==
  \A k \in 1..Len(root.entries) :
    /\ root.entries[k].in = Fmt3(cuts[k].start)
    /\ root.entries[k].out = Fmt3(FAdd(cuts[k].start, cuts[k].length))
    /\ IsFixed3(root.entries[k].in)
    /\ IsFixed3(root.entries[k].out)

\* C9: every cut held in the cut list has a non-negative start, and the in
\* value of every playlist entry is non-negative.
C9_StartNonNegative ==
  /\ \A i \in 1..Len(cuts) : cuts[i].start.k = "fin" => cuts[i].start.n >= 0
  /\ \A k \in 1..Len(root.entries) : root.entries[k].in[1] # "-"

\* The build state after the loop is that of the lines accepted, every line
\* of the file has been read, and the document is the one built from the
\* file without the lines that yield no record.
C10_State ==
  /\ (edl_exists /\ pc \notin {"start", "read"}) => nread = Len(edl)
  /\ DocBuilt => root = DocumentOf(WithoutRejected(edl))
  /\ out_file # <<>> => out_file = <<DocumentOf(WithoutRejected(edl))>>

\* Reading a line that yields no record changes nothing of the build state
\* and the loop goes on.
C10_Step ==
  (pc = "read" /\ nread < Len(edl) /\ nread' = nread + 1
     /\ parse_edl_line(edl[nread + 1]).data = <<>>)
    => /\ UNCHANGED <<cuts, unique_paths, producer_counter>>
       /\ pc' = "read"

\* C10: a malformed line is not fatal and leaves the cut list, the registry
\* and the counter as they were; the lines after it are still parsed, and
\* the document is the one the input without its malformed and skipped
\* lines gives.
C10_MalformedLineNoEffect == [](C10_State) /\ [][C10_Step]_vars

\* A document has been written from a file whose second line is malformed
\* and whose first and third lines are cuts of different sources.
C10_Witness ==
  /\ pc = "done" /\ out_file # <<>>
  /\ Len(edl) = 3
  /\ IsContent(edl[2])
  /\ parse_edl_line(edl[2]).data = <<>>
  /\ Len(cuts) = 2
  /\ Len(unique_paths) = 2

====
